---- MODULE Spec2Model ----
(***************************************************************************)
(* The subdirectory-scoped filesystem view of go-billy (package subdirfs). *)
(* A view holds an underlying filesystem and a base path; every operation  *)
(* joins its path argument to the base, makes one call on the underlying   *)
(* filesystem and re-roots the result.                                     *)
(*                                                                         *)
(* A string is a sequence of one-character strings, so that the            *)
(* character-level work of path/filepath and strings is computed, not      *)
(* assumed: "a/b" is <<"a", "/", "b">>.                                    *)
(***************************************************************************)
EXTENDS Integers, Sequences, FiniteSets, TLC

VARIABLES symlinker, fs, views, last, usedDotDot

vars == <<symlinker, fs, views, last, usedDotDot>>

(***************************************************************************)
(* Strings                                                                 *)
(***************************************************************************)
Sep == "/"

Empty == <<>>

Dot == <<".">>

DotDot == <<".", ".">>

Root == <<Sep>>

RECURSIVE SplitFrom(_, _, _, _)
SplitFrom(s, i, cur, acc) ==
    IF i > Len(s) THEN Append(acc, cur)
    ELSE IF s[i] = Sep THEN SplitFrom(s, i + 1, Empty, Append(acc, cur))
    ELSE SplitFrom(s, i + 1, Append(cur, s[i]), acc)

\* strings.Split(s, "/"): the pieces between separators, empty pieces kept.
Split(s) == SplitFrom(s, 1, Empty, <<>>)

RECURSIVE JoinSegs(_)
\* strings.Join(segs, "/")
JoinSegs(segs) ==
    IF Len(segs) = 0 THEN Empty
    ELSE IF Len(segs) = 1 THEN segs[1]
    ELSE segs[1] \o <<Sep>> \o JoinSegs(Tail(segs))

HasPrefix(s, p) == Len(p) <= Len(s) /\ SubSeq(s, 1, Len(p)) = p

\* filepath.IsAbs on a Unix build
IsAbs(path) == HasPrefix(path, Root)

RECURSIVE CleanSegs(_, _, _)
\* The element loop of filepath.Clean: empty and "." elements are dropped,
\* ".." removes the element before it, is dropped at the root, and is kept
\* at the front of a relative path.
CleanSegs(segs, rooted, out) ==
    IF Len(segs) = 0 THEN out
    ELSE LET e == Head(segs)
             rest == Tail(segs)
         IN  IF e = Empty \/ e = Dot THEN CleanSegs(rest, rooted, out)
             ELSE IF e = DotDot
                  THEN IF Len(out) > 0 /\ out[Len(out)] # DotDot
                       THEN CleanSegs(rest, rooted, SubSeq(out, 1, Len(out) - 1))
                       ELSE IF rooted THEN CleanSegs(rest, rooted, out)
                       ELSE CleanSegs(rest, rooted, Append(out, e))
                  ELSE CleanSegs(rest, rooted, Append(out, e))

\* filepath.Clean
Clean(path) ==
    IF path = Empty THEN Dot
    ELSE LET rooted == IsAbs(path)
             out == CleanSegs(Split(path), rooted, <<>>)
         IN  IF rooted THEN Root \o JoinSegs(out)
             ELSE IF Len(out) = 0 THEN Dot
             ELSE JoinSegs(out)

RECURSIVE FirstNonEmpty(_, _)
FirstNonEmpty(elem, i) ==
    IF i > Len(elem) THEN 0
    ELSE IF elem[i] # Empty THEN i
    ELSE FirstNonEmpty(elem, i + 1)

\* filepath.Join: from the first non-empty element on, the elements joined
\* by separators and cleaned; the empty string when every element is empty.
FilepathJoin(elem) ==
    LET i == FirstNonEmpty(elem, 1)
    IN  IF i = 0 THEN Empty
        ELSE Clean(JoinSegs(SubSeq(elem, i, Len(elem))))

RECURSIVE StripTrailingSep(_)
StripTrailingSep(path) ==
    IF Len(path) > 0 /\ path[Len(path)] = Sep
    THEN StripTrailingSep(SubSeq(path, 1, Len(path) - 1))
    ELSE path

\* filepath.Base
FilepathBase(path) ==
    IF path = Empty THEN Dot
    ELSE LET p == StripTrailingSep(path)
             segs == Split(p)
             l == segs[Len(segs)]
         IN  IF l = Empty THEN Root ELSE l

RECURSIVE CommonLen(_, _, _)
CommonLen(a, b, n) ==
    IF n < Len(a) /\ n < Len(b) /\ a[n + 1] = b[n + 1]
    THEN CommonLen(a, b, n + 1)
    ELSE n

RECURSIVE Ups(_)
Ups(n) == IF n = 0 THEN <<>> ELSE <<DotDot>> \o Ups(n - 1)

\* The elements of a cleaned path ("." and "/" have none).
Elems(clean) == SelectSeq(Split(clean), LAMBDA e : e # Empty /\ e # Dot)

\* filepath.Rel: [ok, val].  Both paths are cleaned; equal paths give ".";
\* a rooted and an unrooted path cannot be related; otherwise one ".." per
\* base element after the common prefix, then the rest of the target.
FilepathRel(basepath, targpath) ==
    LET base == Clean(basepath)
        targ == Clean(targpath)
        b == Elems(base)
        t == Elems(targ)
        n == CommonLen(b, t, 0)
    IN  IF targ = base THEN [ok |-> TRUE, val |-> Dot]
        ELSE IF IsAbs(base) # IsAbs(targ) THEN [ok |-> FALSE, val |-> Empty]
        ELSE IF n < Len(b) /\ b[n + 1] = DotDot THEN [ok |-> FALSE, val |-> Empty]
        ELSE [ok |-> TRUE,
              val |-> JoinSegs(Ups(Len(b) - n) \o SubSeq(t, n + 1, Len(t)))]

RECURSIVE IndexFrom(_, _, _)
IndexFrom(s, old, i) ==
    IF i + Len(old) - 1 > Len(s) THEN 0
    ELSE IF SubSeq(s, i, i + Len(old) - 1) = old THEN i
    ELSE IndexFrom(s, old, i + 1)

\* strings.Replace(s, old, "", 1): the first occurrence of old, wherever it
\* is, is removed.
ReplaceFirst(s, old) ==
    LET i == IndexFrom(s, old, 1)
    IN  IF old = Empty \/ i = 0 THEN s
        ELSE SubSeq(s, 1, i - 1) \o SubSeq(s, i + Len(old), Len(s))

(***************************************************************************)
(* Values                                                                  *)
(***************************************************************************)
\* The nil handle, info or list that goes with an error.
Nil == [nil |-> TRUE]

NoErr == "nil"

\* src/subdirfs/subdir.go:14
ErrSymlinkNotSupported == "symlink not supported"

Str(s) == [str |-> s]

(***************************************************************************)
(* The underlying filesystem: a map from cleaned path to entry.  Each      *)
(* operation yields [err, val, fs]: the error, the value and the map       *)
(* after the call.  It acts on exactly the path it is given.               *)
(***************************************************************************)
Entry(kind, target) == [kind |-> kind, target |-> target]

\* The proper ancestors of a cleaned path, nearest the root first.
Ancestors(path) ==
    LET e == Elems(path)
        pre == IF IsAbs(path) THEN Root ELSE Empty
    IN  { pre \o JoinSegs(SubSeq(e, 1, n)) : n \in 1..(Len(e) - 1) }

IsChildOf(child, dir) == Elems(child) # <<>> /\
    IsAbs(child) = IsAbs(dir) /\
    SubSeq(Elems(child), 1, Len(Elems(child)) - 1) = Elems(dir)

\* dir itself or a whole-segment descendant of it
IsWithin(path, dir) ==
    /\ IsAbs(path) = IsAbs(dir)
    /\ Len(Elems(dir)) <= Len(Elems(path))
    /\ SubSeq(Elems(path), 1, Len(Elems(dir))) = Elems(dir)

BlockedByFile(path) == \E a \in Ancestors(path) : a \in DOMAIN fs /\ fs[a].kind # "dir"

\* fs with the entry e at path and every missing ancestor made a directory
WithEntry(f, path, e) ==
    LET new == (Ancestors(path) \ DOMAIN f) \cup {path}
    IN  [q \in DOMAIN f \cup new |->
            IF q = path THEN e
            ELSE IF q \in DOMAIN f THEN f[q]
            ELSE Entry("dir", Empty)]

Without(f, gone) == [q \in DOMAIN f \ gone |-> f[q]]

UFail(err) == [err |-> err, val |-> Nil, fs |-> fs]

\* os.FileInfo of the entry at path: Name() is its base name.
UInfo(path) == [name |-> FilepathBase(path), isDir |-> fs[path].kind = "dir",
                mode |-> fs[path].kind]

\* An open handle of the underlying filesystem: Filename() is its own path.
UHandle(path) == [filename |-> path]

UCreate(path) ==
    IF BlockedByFile(path) THEN UFail("ErrNotDir")
    ELSE IF path \in DOMAIN fs /\ fs[path].kind = "dir" THEN UFail("ErrIsDir")
    ELSE IF path \in DOMAIN fs
         THEN [err |-> NoErr, val |-> UHandle(path), fs |-> fs]
    ELSE [err |-> NoErr, val |-> UHandle(path),
          fs |-> WithEntry(fs, path, Entry("file", Empty))]

UOpen(path) ==
    IF path \notin DOMAIN fs THEN UFail("ErrNotExist")
    ELSE [err |-> NoErr, val |-> UHandle(path), fs |-> fs]

UOpenFile(path, flag) == IF flag = "O_CREATE" THEN UCreate(path) ELSE UOpen(path)

TempSuffixes == { <<"0">>, <<"1">> }

UTempFile(dir, prefix) ==
    LET free == { x \in TempSuffixes : FilepathJoin(<<dir, prefix \o x>>) \notin DOMAIN fs }
        x == CHOOSE y \in free : \A z \in free : y[1] = "0" \/ z[1] # "0"
        path == FilepathJoin(<<dir, prefix \o x>>)
    IN  IF dir \notin DOMAIN fs THEN UFail("ErrNotExist")
        ELSE IF fs[dir].kind # "dir" THEN UFail("ErrNotDir")
        ELSE IF free = {} THEN UFail("ErrExist")
        ELSE [err |-> NoErr, val |-> UHandle(path),
              fs |-> WithEntry(fs, path, Entry("file", Empty))]

URename(from, to) ==
    LET moved == { q \in DOMAIN fs : IsWithin(q, from) }
        dest(q) == IF q = from THEN to
                   ELSE to \o <<Sep>> \o SubSeq(q, Len(from) + 2, Len(q))
        kept == Without(fs, moved \cup { q \in DOMAIN fs : IsWithin(q, to) })
        based == WithEntry(kept, to, fs[from])
    IN  IF from \notin DOMAIN fs THEN UFail("ErrNotExist")
        ELSE IF BlockedByFile(to) THEN UFail("ErrNotDir")
        ELSE IF IsWithin(to, from) \/ IsWithin(from, to) THEN UFail("ErrInvalid")
        ELSE [err |-> NoErr, val |-> Nil,
              fs |-> [q \in DOMAIN based \cup { dest(m) : m \in moved } |->
                        IF \E m \in moved : dest(m) = q
                        THEN fs[CHOOSE m \in moved : dest(m) = q]
                        ELSE based[q]]]

URemove(path) ==
    IF path \notin DOMAIN fs THEN UFail("ErrNotExist")
    ELSE IF \E q \in DOMAIN fs : IsChildOf(q, path) THEN UFail("ErrNotEmpty")
    ELSE [err |-> NoErr, val |-> Nil, fs |-> Without(fs, {path})]

UMkdirAll(path) ==
    IF BlockedByFile(path) \/ (path \in DOMAIN fs /\ fs[path].kind # "dir")
    THEN UFail("ErrNotDir")
    ELSE IF path \in DOMAIN fs THEN [err |-> NoErr, val |-> Nil, fs |-> fs]
    ELSE [err |-> NoErr, val |-> Nil, fs |-> WithEntry(fs, path, Entry("dir", Empty))]

UStat(path) ==
    IF path \notin DOMAIN fs THEN UFail("ErrNotExist")
    ELSE [err |-> NoErr, val |-> UInfo(path), fs |-> fs]

UReadDir(path) ==
    IF path \notin DOMAIN fs THEN UFail("ErrNotExist")
    ELSE IF fs[path].kind # "dir" THEN UFail("ErrNotDir")
    ELSE [err |-> NoErr,
          val |-> [list |-> { UInfo(q) : q \in { c \in DOMAIN fs : IsChildOf(c, path) } }],
          fs |-> fs]

\* billy.Symlinker: the link stores its target as given.
USymlink(target, link) ==
    IF link \in DOMAIN fs THEN UFail("ErrExist")
    ELSE IF BlockedByFile(link) THEN UFail("ErrNotDir")
    ELSE [err |-> NoErr, val |-> Nil, fs |-> WithEntry(fs, link, Entry("link", target))]

UReadlink(path) ==
    IF path \notin DOMAIN fs THEN UFail("ErrNotExist")
    ELSE IF fs[path].kind # "link" THEN UFail("ErrInvalid")
    ELSE [err |-> NoErr, val |-> Str(fs[path].target), fs |-> fs]

\* The record of one call made on the underlying filesystem: the location
\* paths it was given, its other arguments, and what it returned.
Call(op, paths, extra, r) ==
    [op |-> op, paths |-> paths, extra |-> extra, err |-> r.err, val |-> r.val]

(***************************************************************************)
(* The view (subdirFs).  Each operation yields [err, val, calls, fs]: what *)
(* the caller gets, the calls made on the underlying filesystem, in order, *)
(* and the underlying map afterwards.                                      *)
(***************************************************************************)
Ret(err, val, calls, f) == [err |-> err, val |-> val, calls |-> calls, fs |-> f]

New(u, base) == [underlying |-> u, base |-> base]

Base(s) == s.base

\* s.underlying.Join
Join(s, elem) == FilepathJoin(elem)

\* A variant that glues the name to the base with no separator between.
underlyingPathConcat(s, filename) == Clean(Base(s) \o filename)

underlyingPath(s, filename) == Join(s, <<Base(s), filename>>)

\* The scoped file handle: the reported name, and the handle it wraps.
newFile(s, f, filename) == [filename |-> filename, f |-> f]

\* The scoped metadata: the reported name, and the info it wraps.
newFileInfo(name, fi) == [name |-> name, fi |-> fi]

\* A variant that labels the handle with the name the underlying handle has.
CreateUnderlyingName(s, filename) ==
    LET path == Join(s, <<Base(s), filename>>)
        r == UCreate(path)
        c == <<Call("Create", <<path>>, <<>>, r)>>
    IN  IF r.err # NoErr THEN Ret(r.err, Nil, c, r.fs)
        ELSE Ret(NoErr, newFile(s, r.val, r.val.filename), c, r.fs)

\* A variant that tries once more when the underlying call fails and
\* reports a failure of its own.
CreateRetry(s, filename) ==
    LET path == Join(s, <<Base(s), filename>>)
        r == UCreate(path)
        c == <<Call("Create", <<path>>, <<>>, r)>>
    IN  IF r.err # NoErr THEN Ret("create failed", Nil, c \o c, r.fs)
        ELSE Ret(NoErr, newFile(s, r.val, filename), c, r.fs)

Create(s, filename) ==
    LET path == underlyingPath(s, filename)
        r == UCreate(path)
        c == <<Call("Create", <<path>>, <<>>, r)>>
    IN  IF r.err # NoErr THEN Ret(r.err, Nil, c, r.fs)
        ELSE Ret(NoErr, newFile(s, r.val, filename), c, r.fs)

Open(s, filename) ==
    LET path == underlyingPath(s, filename)
        r == UOpen(path)
        c == <<Call("Open", <<path>>, <<>>, r)>>
    IN  IF r.err # NoErr THEN Ret(r.err, Nil, c, r.fs)
        ELSE Ret(NoErr, newFile(s, r.val, filename), c, r.fs)

OpenFile(s, filename, flag) ==
    LET path == underlyingPath(s, filename)
        r == UOpenFile(path, flag)
        c == <<Call("OpenFile", <<path>>, <<flag>>, r)>>
    IN  IF r.err # NoErr THEN Ret(r.err, Nil, c, r.fs)
        ELSE Ret(NoErr, newFile(s, r.val, filename), c, r.fs)

TempFile(s, dir, prefix) ==
    LET path == underlyingPath(s, dir)
        r == UTempFile(path, prefix)
        c == <<Call("TempFile", <<path>>, <<prefix>>, r)>>
    IN  IF r.err # NoErr THEN Ret(r.err, Nil, c, r.fs)
        ELSE Ret(NoErr,
                 newFile(s, r.val, Join(s, <<dir, FilepathBase(r.val.filename)>>)),
                 c, r.fs)

Rename(s, from, to) ==
    LET f == underlyingPath(s, from)
        t == underlyingPath(s, to)
        r == URename(f, t)
    IN  Ret(r.err, Nil, <<Call("Rename", <<f, t>>, <<>>, r)>>, r.fs)

Remove(s, path) ==
    LET p == underlyingPath(s, path)
        r == URemove(p)
    IN  Ret(r.err, Nil, <<Call("Remove", <<p>>, <<>>, r)>>, r.fs)

MkdirAll(s, filename) ==
    LET fullpath == Join(s, <<s.base, filename>>)
        r == UMkdirAll(fullpath)
    IN  Ret(r.err, Nil, <<Call("MkdirAll", <<fullpath>>, <<>>, r)>>, r.fs)

\* A variant that takes a path for existing when some entry's path starts
\* with its text.
StatByPrefix(s, filename) ==
    LET fullpath == Join(s, <<Base(s), filename>>)
        hits == { q \in DOMAIN fs : HasPrefix(q, fullpath) }
        r == UStat(IF fullpath \in DOMAIN fs \/ hits = {} THEN fullpath
                   ELSE CHOOSE q \in hits : TRUE)
        c == <<Call("Stat", <<fullpath>>, <<>>, r)>>
    IN  IF r.err # NoErr THEN Ret(r.err, Nil, c, r.fs)
        ELSE Ret(NoErr, newFileInfo(FilepathBase(fullpath), r.val), c, r.fs)

Stat(s, filename) ==
    LET fullpath == underlyingPath(s, filename)
        r == UStat(fullpath)
        c == <<Call("Stat", <<fullpath>>, <<>>, r)>>
    IN  IF r.err # NoErr THEN Ret(r.err, Nil, c, r.fs)
        ELSE Ret(NoErr, newFileInfo(FilepathBase(fullpath), r.val), c, r.fs)

ReadDir(s, path) ==
    LET prefix == underlyingPath(s, path)
        r == UReadDir(prefix)
        c == <<Call("ReadDir", <<prefix>>, <<>>, r)>>
    IN  IF r.err # NoErr THEN Ret(r.err, Nil, c, r.fs)
        ELSE Ret(NoErr,
                 [list |-> { newFileInfo(ReplaceFirst(fi.name, prefix), fi) :
                                fi \in r.val.list }],
                 c, r.fs)

\* A variant that wraps the view itself, so that the new base is the
\* sub-path alone.
DirChained(s, path) == New("subdirFs", path)

Dir(s, path) == New(s.underlying, underlyingPath(s, path))

\* A variant that does not ask whether the underlying filesystem can link.
SymlinkUnchecked(s, oldname, newname) ==
    LET old == IF IsAbs(oldname)
               THEN <<Sep>> \o Join(s, <<Base(s), oldname>>)
               ELSE oldname
        new == Join(s, <<Base(s), newname>>)
        r == USymlink(old, new)
    IN  Ret(r.err, Nil, <<Call("Symlink", <<new>>, <<old>>, r)>>, r.fs)

Symlink(s, oldname, newname) ==
    IF ~symlinker THEN Ret(ErrSymlinkNotSupported, Nil, <<>>, fs)
    ELSE LET old == IF IsAbs(oldname)
                    THEN <<Sep>> \o underlyingPath(s, oldname)
                    ELSE oldname
             new == underlyingPath(s, newname)
             r == USymlink(old, new)
         IN  Ret(r.err, Nil, <<Call("Symlink", <<new>>, <<old>>, r)>>, r.fs)

\* A variant that hands an absolute target back as the underlying
\* filesystem stored it.
ReadlinkPassThrough(s, name) ==
    IF ~symlinker THEN Ret(ErrSymlinkNotSupported, Str(Empty), <<>>, fs)
    ELSE LET fullpath == Join(s, <<Base(s), name>>)
             r == UReadlink(fullpath)
             c == <<Call("Readlink", <<fullpath>>, <<>>, r)>>
         IN  IF r.err # NoErr THEN Ret(r.err, Str(Empty), c, r.fs)
             ELSE Ret(NoErr, r.val, c, r.fs)

Readlink(s, name) ==
    IF ~symlinker THEN Ret(ErrSymlinkNotSupported, Str(Empty), <<>>, fs)
    ELSE LET fullpath == underlyingPath(s, name)
             r == UReadlink(fullpath)
             c == <<Call("Readlink", <<fullpath>>, <<>>, r)>>
             base == <<Sep>> \o s.base
             rel == FilepathRel(base, r.val.str)
         IN  IF r.err # NoErr THEN Ret(r.err, Str(Empty), c, r.fs)
             ELSE IF ~IsAbs(r.val.str) THEN Ret(NoErr, r.val, c, r.fs)
             ELSE IF ~rel.ok THEN Ret("ErrRel", Str(Empty), c, r.fs)
             ELSE Ret(NoErr, Str(<<Sep>> \o rel.val), c, r.fs)

(***************************************************************************)
(* Inputs and bounds                                                       *)
(***************************************************************************)
\* The most entries the underlying filesystem holds.
MaxEntries == 5

\* The most views alive at once.
MaxViews == 3

pA == <<"a">>

pB == <<"b">>

pAB == <<"a", "b">>

pSlashA == <<Sep, "a">>

pSlashB == <<Sep, "b">>

pSlashAB == <<Sep, "a", "b">>

pBA == <<"b", Sep, "a">>

pABF == <<"a", "b", Sep, "f">>

pUpABF == DotDot \o <<Sep>> \o pABF

\* View-relative paths the callers pass.
Paths == { Empty, Root, pA, pSlashA, pB, pAB, pBA, pUpABF }

CreatePaths == { pA, pSlashA, pB, pAB, pBA, pUpABF }

OpenPaths == { pA, pSlashA, pAB, pBA }

OpenFilePaths == { pB, pSlashA }

MkdirPaths == { pB, pBA }

RemovePaths == { pA, pB, pAB, pUpABF }

ReadDirPaths == { Empty, Root, pA, pB }

ReadlinkPaths == { pA, pSlashA, pBA }

RenameFrom == { pB, pAB }

RenameTo == { pBA }

LinkTargets == { pB, pSlashAB, Root }

LinkNames == { pBA }

TempDirs == { pB }

TempPrefixes == { pA }

DirPaths == { pB, pSlashB }

Flags == { "O_RDONLY", "O_CREATE" }

HasDotDot(p) == \E i \in 1..Len(Split(p)) : Split(p)[i] = DotDot

\* The underlying filesystem before the view is made: the base directory, and
\* a sibling whose name has the base as a string prefix.
InitFs == (pA :> Entry("dir", Empty)) @@ (pAB :> Entry("dir", Empty)) @@
          (pABF :> Entry("file", Empty))

InitView == New("fs", pA)

\* What the caller holds between two calls: no result.
NoCall == [op |-> "none", view |-> InitView, args |-> <<>>, extra |-> <<>>,
           err |-> NoErr, val |-> Nil, calls |-> <<>>]

Init ==
    /\ symlinker \in BOOLEAN
    /\ fs = InitFs
    /\ views = { InitView }
    /\ last = NoCall
    /\ usedDotDot = FALSE

\* One call of an operation on view s: the underlying map changes as the
\* operation left it and the call's outcome is what the caller holds.
Apply(op, s, args, extra, r) ==
    /\ last = NoCall
    /\ Cardinality(DOMAIN r.fs) <= MaxEntries
    /\ fs' = r.fs
    /\ last' = [op |-> op, view |-> s, args |-> args, extra |-> extra,
                err |-> r.err, val |-> r.val, calls |-> r.calls]
    /\ usedDotDot' = (usedDotDot \/ \E i \in 1..Len(args) : HasDotDot(args[i]))
    /\ UNCHANGED <<symlinker, views>>

DoCreate == \E s \in views, p \in CreatePaths : Apply("Create", s, <<p>>, <<>>, Create(s, p))

DoOpen == \E s \in views, p \in OpenPaths : Apply("Open", s, <<p>>, <<>>, Open(s, p))

DoOpenFile == \E s \in views, p \in OpenFilePaths, flag \in Flags :
    Apply("OpenFile", s, <<p>>, <<flag>>, OpenFile(s, p, flag))

DoTempFile == \E s \in views, d \in TempDirs, x \in TempPrefixes :
    Apply("TempFile", s, <<d>>, <<x>>, TempFile(s, d, x))

DoRename == \E s \in views, f \in RenameFrom, t \in RenameTo :
    Apply("Rename", s, <<f, t>>, <<>>, Rename(s, f, t))

DoRemove == \E s \in views, p \in RemovePaths : Apply("Remove", s, <<p>>, <<>>, Remove(s, p))

DoMkdirAll == \E s \in views, p \in MkdirPaths :
    Apply("MkdirAll", s, <<p>>, <<>>, MkdirAll(s, p))

DoStat == \E s \in views, p \in Paths : Apply("Stat", s, <<p>>, <<>>, Stat(s, p))

DoReadDir == \E s \in views, p \in ReadDirPaths : Apply("ReadDir", s, <<p>>, <<>>, ReadDir(s, p))

DoSymlink == \E s \in views, t \in LinkTargets, l \in LinkNames :
    Apply("Symlink", s, <<l>>, <<t>>, Symlink(s, t, l))

DoReadlink == \E s \in views, p \in ReadlinkPaths :
    Apply("Readlink", s, <<p>>, <<>>, Readlink(s, p))

DoDir == \E s \in views, p \in DirPaths :
    /\ last = NoCall
    /\ Cardinality(views \cup { Dir(s, p) }) <= MaxViews
    /\ views' = views \cup { Dir(s, p) }
    /\ last' = [op |-> "Dir", view |-> s, args |-> <<p>>, extra |-> <<>>,
                err |-> NoErr, val |-> Dir(s, p), calls |-> <<>>]
    /\ UNCHANGED <<symlinker, fs, usedDotDot>>

\* The caller is done with the result of its call and is ready for the next.
Return ==
    /\ last # NoCall
    /\ last' = NoCall
    /\ UNCHANGED <<symlinker, fs, views, usedDotDot>>

Next ==
    \/ DoCreate
    \/ DoOpen
    \/ DoOpenFile
    \/ DoTempFile
    \/ DoRename
    \/ DoRemove
    \/ DoMkdirAll
    \/ DoStat
    \/ DoReadDir
    \/ DoSymlink
    \/ DoReadlink
    \/ DoDir
    \/ Return

Spec == Init /\ [][Next]_vars

(***************************************************************************)
(* Properties                                                              *)
(***************************************************************************)
Arg == last.args[1]

Ok == last.err = NoErr

\* join(base, p) for the call whose result the caller holds.
Joined == FilepathJoin(<<last.view.base, Arg>>)

NoDotDotArgs == \A i \in 1..Len(last.args) : ~HasDotDot(last.args[i])

ChildrenOf(dir) == { c \in DOMAIN fs : IsChildOf(c, dir) }

\* C1: a successful ReadDir(p) returns one entry per immediate child of
\* join(base, p), each named by that child's own base name -- a name that
\* merely contains the text of the translated prefix included.
C1_ReadDirReportsBaseNames ==
    (last.op = "ReadDir" /\ Ok) =>
        /\ Cardinality(last.val.list) = Cardinality(ChildrenOf(Joined))
        /\ \A c \in ChildrenOf(Joined) :
              \E i \in last.val.list :
                  i.name = FilepathBase(c) /\ i.fi.name = FilepathBase(c)

\* C2: a successful Stat(p), p without "..", reports the last path segment
\* of p as the name, whatever the base, and the other attributes of the
\* underlying entry at join(base, p).
C2_StatNameIsLastSegmentOfP ==
    (last.op = "Stat" /\ Ok /\ ~HasDotDot(Arg)) =>
        /\ last.val.name = FilepathBase(Arg)
        /\ last.val.fi = UInfo(Joined)

\* C3: a handle from a successful Create, Open or OpenFile reports the
\* path the caller passed, not the base-prefixed name of the underlying
\* handle; and right after Create(p), Open(p) on the same view reports p.
C3_HandleReportsCallersPath ==
    /\ (last.op \in {"Create", "Open", "OpenFile"} /\ Ok) =>
          /\ last.val.filename = Arg
          /\ last.val.f.filename = Joined
          /\ last.val.filename # last.val.f.filename
    /\ (last.op = "Create" /\ Ok) =>
          /\ Open(last.view, Arg).err = NoErr
          /\ Open(last.view, Arg).val.filename = Arg

C3_Witness ==
    /\ last.op = "Open" /\ Ok
    /\ last.view.base = pA \o <<Sep>> \o pB
    /\ Arg = pSlashA

\* C4: Dir(sub) is a view on the original underlying filesystem whose base
\* is join(base, sub); and once a file is created through a view at
\* join(sub, x), Stat(x) and Stat("/" + x) through Dir(sub) of that view
\* succeed and report the name x.
C4_DirIsFlatAndSeesTheFile ==
    /\ last.op = "Dir" =>
          /\ Base(last.val) = FilepathJoin(<<last.view.base, Arg>>)
          /\ last.val.underlying = "fs"
          /\ last.val.underlying = last.view.underlying
    /\ (last.op = "Create" /\ Ok) =>
          \A sub \in DirPaths, x \in {pA, pB, pAB} :
              Arg = FilepathJoin(<<sub, x>>) =>
                  /\ Stat(Dir(last.view, sub), x).err = NoErr
                  /\ Stat(Dir(last.view, sub), x).val.name = x
                  /\ ~Stat(Dir(last.view, sub), x).val.fi.isDir
                  /\ Stat(Dir(last.view, sub), <<Sep>> \o x).err = NoErr
                  /\ Stat(Dir(last.view, sub), <<Sep>> \o x).val.name = x

C4_Witness ==
    /\ last.op = "Create" /\ Ok /\ Arg = pBA
    /\ Dir(last.view, pB) \in views

\* C5: after Symlink(t, l) succeeds on a view, Readlink(l) on that view
\* returns t: a relative t as it is, an absolute t as the same absolute
\* view-relative path.
C5_SymlinkReadlinkRoundTrip ==
    (last.op = "Symlink" /\ Ok) =>
        /\ Readlink(last.view, Arg).err = NoErr
        /\ Readlink(last.view, Arg).val = Str(last.extra[1])

UnderlyingErrors == { "ErrNotExist", "ErrNotDir", "ErrIsDir", "ErrExist",
                      "ErrInvalid", "ErrNotEmpty" }

\* C6: on an underlying filesystem that cannot link, every Symlink and
\* Readlink returns ErrSymlinkNotSupported (Readlink with an empty target),
\* which is none of the underlying errors, makes no call on the underlying
\* filesystem and leaves it as it was.
C6_NoCapabilityNoCall ==
    [][ (~symlinker /\ last'.op \in {"Symlink", "Readlink"}) =>
            /\ last'.err = ErrSymlinkNotSupported
            /\ last'.err \notin UnderlyingErrors
            /\ last'.calls = <<>>
            /\ last'.op = "Readlink" => last'.val = Str(Empty)
            /\ fs' = fs ]_vars

C6_Witness ==
    /\ ~symlinker
    /\ last.op = "Symlink"
    /\ last.err = ErrSymlinkNotSupported

\* C7: when the underlying call of an operation fails, the view returns
\* that very error, with no handle, info or list, after that one call; and
\* Create on a path that exists as a directory fails with a nil handle.
C7_UnderlyingErrorPassesThrough ==
    /\ (\E i \in 1..Len(last.calls) : last.calls[i].err # NoErr) =>
          /\ Len(last.calls) = 1
          /\ last.err = last.calls[1].err
          /\ last.val \in {Nil, Str(Empty)}
    /\ (last.op = "Create" /\ Joined \in DOMAIN fs /\ fs[Joined].kind = "dir") =>
          /\ last.err # NoErr
          /\ last.val = Nil

C7_Witness ==
    /\ last.op = "Create"
    /\ last.err = "ErrIsDir"
    /\ last.val = Nil

\* C8: Stat of a path that does not exist and is only a proper string
\* prefix of an existing entry's path is not-found with a nil info, and
\* Stat of a path that exists succeeds.
C8_PrefixOfANameIsNotFound ==
    last.op = "Stat" =>
        /\ (Joined \notin DOMAIN fs /\ \E q \in DOMAIN fs : HasPrefix(q, Joined)) =>
              (last.err = "ErrNotExist" /\ last.val = Nil)
        /\ Joined \in DOMAIN fs => (Ok /\ last.val.fi = UInfo(Joined))

C8_Witness ==
    /\ last.op = "Stat" /\ Arg = pA /\ last.view = InitView
    /\ FilepathJoin(<<pA, pAB>>) \in DOMAIN fs
    /\ last.err = "ErrNotExist"

Outside(f) == { q \in DOMAIN f : ~IsWithin(q, Base(InitView)) }

Stored == last.calls[1].val.str

\* C10: Readlink of a link whose stored target is absolute and not within
\* separator + base succeeds with separator + a path with ".." segments
\* that leads from separator + base to the target, not the target itself;
\* a relative stored target is returned as it is.
C10_ReadlinkOutsideBaseEscapes ==
    (last.op = "Readlink" /\ last.calls # <<>> /\ last.calls[1].err = NoErr) =>
        /\ ~IsAbs(Stored) => (Ok /\ last.val = Str(Stored))
        /\ (IsAbs(Stored) /\ ~IsWithin(Clean(Stored), Clean(<<Sep>> \o last.view.base))) =>
              /\ Ok
              /\ last.val.str # Stored
              /\ HasPrefix(last.val.str, <<Sep, ".", ".">>)
              /\ HasDotDot(last.val.str)
              /\ Clean(<<Sep>> \o last.view.base \o last.val.str) = Clean(Stored)

C10_Witness ==
    /\ last.op = "Readlink" /\ Ok
    /\ IsAbs(Stored)
    /\ HasDotDot(last.val.str)

====
